---- MODULE Spec2Model ----
(***************************************************************************)
(* Hazard store, device registry, alert lifecycle and notifier of the      *)
(* imobilothon backend (app/crud, app/api/routes, app/core/mqtt_client).   *)
(*                                                                         *)
(* The committed content of the PostgreSQL tables is the shared state.     *)
(* Every request runs in its own SQLAlchemy Session (app/db/database.py)   *)
(* on a thread of the server's pool; each statement it issues (SELECT,     *)
(* flush, commit, refresh) is one atomic step and the steps of different   *)
(* requests interleave freely (READ COMMITTED).                            *)
(*                                                                         *)
(* Columns no modelled operation reads (model, firmware_version,           *)
(* registered_at, last_seen, last_active, last_updated) are left out of    *)
(* the rows. Latitude and longitude are whole degrees, severity and        *)
(* confidence are tenths (10 is 1.0), times are ticks of the clock.        *)
(***************************************************************************)
EXTENDS Integers, FiniteSets, Sequences, TLC

\* ---------------------------------------------------------------- bounds
\* Rows the specifications let requests create, and the latest clock value.
MaxHazards == 1
MaxAlerts == 1
MaxClock == 2
\* Hazards, and alerts, of the specifications about racing creations.
MaxRacing == 2
\* Hazards, and alerts, of the specifications about the queries.
MaxListed == 2
\* The latest clock value of the specifications about the days of hazards.
MaxTick == 5
\* Clock values per calendar day: a date is a clock value \div TicksPerDay.
TicksPerDay == 2

Workers == {"w1", "w2"}
DeviceIds == {"d1", "d2"}
HazardTypes == {"pothole"}

\* Request bodies HazardCreate without their device_id, for the hazard types,
\* latitudes, longitudes, severities and confidences given.
HazardBodies(T, LA, LO, SV, CF) ==
    [hazard_type : T, lat : LA, lon : LO, severity : SV, confidence : CF]

\* A pothole at latitude 0, longitude 0, severity and confidence 1.0.
OneBody == HazardBodies(HazardTypes, {0}, {0}, {10}, {10})
AlertTypes == {"local", "V2V"}
RegisteredTypes == {"dashcam"}

NULL == 0

VARIABLES
    devices,      \* committed rows of table devices
    hazards,      \* committed rows of table hazards
    alerts,       \* committed rows of table alerts
    configs,      \* committed rows of table device_configs
    nextHazardId, \* sequence of hazards.id
    nextAlertId,  \* sequence of alerts.id
    pending,      \* per session: Device rows flushed but not yet committed
    req,          \* per handler thread: the request it runs and its response
    clock         \* the last value datetime.now(timezone.utc) returned

vars == <<devices, hazards, alerts, configs, nextHazardId, nextAlertId,
          pending, req, clock>>

store == <<devices, hazards, alerts, configs, nextHazardId, nextAlertId>>

\* ------------------------------------------------------------ the tables

\* The column without its unique index.
UniqueDeviceIdOff == FALSE

\* Column device_id of Device is declared unique=True.
UniqueDeviceId == TRUE

\* The rows a session's SELECT ... WHERE device_id = d sees: the committed ones
\* and the ones the session itself has flushed.
DeviceRows(w, d) == {r \in devices \cup pending[w] : r.device_id = d}

\* scalar_one_or_none() on that SELECT: the row's primary key, or NULL.
LookupDevice(w, d) ==
    IF DeviceRows(w, d) = {} THEN NULL
    ELSE (CHOOSE r \in DeviceRows(w, d) : TRUE).id

\* The unique index rejects an INSERT whose device_id is already committed.
UniqueViolation(d) == UniqueDeviceId /\ \E r \in devices : r.device_id = d

\* The sessions holding an uncommitted row with that device_id: the unique
\* index makes the INSERT wait for them to commit or roll back.
Holders(w, d) ==
    IF UniqueDeviceId
    THEN {v \in Workers \ {w} : \E r \in pending[v] : r.device_id = d}
    ELSE {}

AllDeviceRows == devices \cup UNION {pending[v] : v \in Workers}

\* Primary key of a new Device row (serial column id): a key no row holds. The
\* gaps a rolled-back INSERT leaves in the sequence are not kept.
NewDeviceRowId ==
    CHOOSE k \in 1..(Cardinality(AllDeviceRows) + 1) :
        /\ \A r \in AllDeviceRows : r.id # k
        /\ \A j \in 1..(k - 1) : \E r \in AllDeviceRows : r.id = j

\* Device(device_id=d, device_type=t)
NewDevice(d, t) == [id |-> NewDeviceRowId, device_id |-> d, device_type |-> t]

\* DeviceConfig(device_id=key, detection_interval=5, alert_radius=500,
\* min_confidence_threshold=0.7); rows of device_configs are never deleted, so
\* the serial id is their number plus one.
NewConfig(key) ==
    [id |-> Cardinality(configs) + 1, device_id |-> key,
     detection_interval |-> 5, alert_radius |-> 500,
     min_confidence_threshold |-> 7]

\* SELECT ... FROM device_configs WHERE device_id = key
ConfigsOf(rows, key) == {c \in rows : c.device_id = key}

GetHazard(hid) == {h \in hazards : h.id = hid}
GetAlert(aid) == {a \in alerts : a.id = aid}

\* func.ST_X(Hazard.geom) and func.ST_Y(Hazard.geom)
ST_X(g) == g[1]
ST_Y(g) == g[2]

\* The dict of get_hazard_with_location, which the route returns as HazardOut.
HazardOut(h) ==
    [id |-> h.id, hazard_type |-> h.hazard_type, severity |-> h.severity,
     confidence |-> h.confidence, ts |-> h.ts,
     lat |-> ST_Y(h.geom), lon |-> ST_X(h.geom)]

\* The orders in which a SELECT ... ORDER BY column DESC may return the rows S:
\* every row once, keys not increasing, rows of equal key in any order.
OrderByDesc(S, column) ==
    {s \in [1..Cardinality(S) -> S] :
        /\ \A i, j \in 1..Cardinality(S) : i # j => s[i] # s[j]
        /\ \A i \in 1..(Cardinality(S) - 1) : s[i][column] >= s[i + 1][column]}

\* --------------------------------------------------------- request state

Idle == [op |-> "none", pc |-> "idle", dev |-> "", rcv |-> "", atype |-> "",
         body |-> NULL, id |-> NULL, row |-> NULL, row2 |-> NULL, ts |-> NULL,
         seen |-> "", code |-> 0, out |-> NULL, transport |-> "",
         notified |-> "none", todo |-> <<>>, sent |-> <<>>]

Free(w) == req[w].pc \in {"idle", "done"}

\* The response of a finished request: HTTP status and the returned value.
\* The thread keeps it until it takes its next request.
Done(w, code, out) ==
    [Idle EXCEPT !.pc = "done", !.code = code, !.out = out]

Running(op) == {v \in Workers : req[v].op = op}

Init ==
    /\ devices = {}
    /\ hazards = {}
    /\ alerts = {}
    /\ configs = {}
    /\ nextHazardId = 1
    /\ nextAlertId = 1
    /\ pending = [w \in Workers |-> {}]
    /\ req = [w \in Workers |-> Idle]
    /\ clock = 1

\* ------------------------------------------------- db.add(device); flush

\* The session of w issues INSERT INTO devices for device_id d, keeps the new
\* primary key in `slot` and goes on at `next`. A committed duplicate raises
\* IntegrityError, which the route turns into 422 while the closed session
\* rolls back; an uncommitted duplicate of another session makes the INSERT
\* wait.
FlushDevice(w, d, t, slot, next) ==
    /\ Holders(w, d) = {}
    /\ IF UniqueViolation(d)
       THEN /\ req' = [req EXCEPT ![w] = Done(w, 422, NULL)]
            /\ pending' = [pending EXCEPT ![w] = {}]
       ELSE /\ req' = [req EXCEPT ![w] =
                         [req[w] EXCEPT ![slot] = NewDeviceRowId, !.pc = next]]
            /\ pending' = [pending EXCEPT ![w] = @ \cup {NewDevice(d, t)}]

\* The device_id of the INSERT a session is at, "" when it is at none.
InsertTarget(w) ==
    IF req[w].pc \in {"ch_flush", "ca_flush_sender", "reg_flush"} THEN req[w].dev
    ELSE IF req[w].pc = "ca_flush_receiver" THEN req[w].rcv
    ELSE ""

WaitsFor(w) == IF InsertTarget(w) = "" THEN {} ELSE Holders(w, InsertTarget(w))

RECURSIVE Reach(_)
Reach(S) ==
    LET T == S \cup UNION {WaitsFor(v) : v \in S}
    IN IF T = S THEN S ELSE Reach(T)

\* w waits, directly or not, for a session that waits for w.
Deadlocked(w) == WaitsFor(w) # {} /\ w \in Reach(WaitsFor(w))

\* PostgreSQL's deadlock detector aborts one session of the cycle; the route
\* reports the error as 422.
deadlock_abort(w) ==
    /\ Deadlocked(w)
    /\ req' = [req EXCEPT ![w] = Done(w, 422, NULL)]
    /\ pending' = [pending EXCEPT ![w] = {}]
    /\ UNCHANGED <<store, clock>>

\* ------------------------------------------------------- create_hazard

\* crud.create_hazard, the device lookup. It opens the transaction, whose
\* start time `now` the server default NOW() of Hazard.ts stores.
create_hazard_lookup(w, d, b, now) ==
    /\ Free(w)
    /\ LET row == LookupDevice(w, d) IN
       req' = [req EXCEPT ![w] =
                 [Idle EXCEPT !.op = "create_hazard", !.dev = d, !.body = b,
                              !.row = row, !.ts = now,
                              !.pc = IF row = NULL THEN "ch_flush" ELSE "ch_commit"]]
    /\ clock' = now
    /\ UNCHANGED <<store, pending>>

\* crud.create_hazard, db.add(device); db.flush().
create_hazard_flush(w) ==
    /\ req[w].pc = "ch_flush"
    /\ FlushDevice(w, req[w].dev, "unknown", "row", "ch_commit")
    /\ UNCHANGED <<store, clock>>

\* WKTElement(f"POINT({lon} {lat})", srid=4326): longitude first.
Point(lon, lat) == <<lon, lat>>

\* Hazard(hazard_type, severity, confidence, geom=point, device_id=device.id)
NewHazard(w) ==
    [id |-> nextHazardId, hazard_type |-> req[w].body.hazard_type,
     severity |-> req[w].body.severity, confidence |-> req[w].body.confidence,
     geom |-> Point(req[w].body.lon, req[w].body.lat), ts |-> req[w].ts,
     device |-> req[w].row]

\* The commit with the auto-created Device row left out of the transaction.
create_hazard_commit_without_device(w) ==
    /\ req[w].pc = "ch_commit"
    /\ hazards' = hazards \cup {NewHazard(w)}
    /\ nextHazardId' = nextHazardId + 1
    /\ devices' = devices
    /\ pending' = [pending EXCEPT ![w] = {}]
    /\ req' = [req EXCEPT ![w].pc = "ch_respond", ![w].id = nextHazardId]
    /\ UNCHANGED <<alerts, configs, nextAlertId, clock>>

\* crud.create_hazard, db.add(db_hazard); db.commit().
create_hazard_commit(w) ==
    /\ req[w].pc = "ch_commit"
    /\ hazards' = hazards \cup {NewHazard(w)}
    /\ nextHazardId' = nextHazardId + 1
    /\ devices' = devices \cup pending[w]
    /\ pending' = [pending EXCEPT ![w] = {}]
    /\ req' = [req EXCEPT ![w].pc = "ch_respond", ![w].id = nextHazardId]
    /\ UNCHANGED <<alerts, configs, nextAlertId, clock>>

\* The global mqtt_client as a request finds it: None (connect_mqtt failed or
\* disconnect_mqtt ran), not is_connected(), or connected.
ClientStates == {"none", "disconnected", "connected"}

\* What the broker call mqtt_client.publish does when the client is connected.
PublishResults == {"success", "rc_error", "raise"}

\* The transport as one request meets it.
TransportState(client, result) == IF client = "connected" THEN result ELSE client

\* publish_hazard_alert without its try/except: the exception of publish
\* reaches the route.
publish_hazard_alert_propagating(client, result) ==
    IF client = "none" THEN "failed"
    ELSE IF client = "disconnected" THEN "failed"
    ELSE IF result = "success" THEN "ok"
    ELSE IF result = "rc_error" THEN "failed"
    ELSE "raised"

\* publish_hazard_alert: "ok" for True, "failed" for False. A publish that
\* raises is caught and reported as False.
publish_hazard_alert(client, result) ==
    IF client = "none" THEN "failed"
    ELSE IF client = "disconnected" THEN "failed"
    ELSE IF result = "success" THEN "ok"
    ELSE "failed"

\* datetime.isoformat(): the text of a time.
isoformat(ts) == <<"iso8601", ts>>

\* The message with latitude and longitude exchanged.
MessageLonLat(loc) ==
    [topic |-> <<"hazards", "alerts", loc.hazard_type>>,
     payload |-> [hazard_id |-> loc.id, hazard_type |-> loc.hazard_type,
                  latitude |-> loc.lon, longitude |-> loc.lat,
                  timestamp |-> isoformat(loc.ts)],
     qos |-> 1]

\* What publish_hazard_alert hands to mqtt_client.publish for the dict `loc`
\* of get_hazard_with_location: the topic hazards/alerts/<hazard_type>, the
\* payload, and the default qos.
Message(loc) ==
    [topic |-> <<"hazards", "alerts", loc.hazard_type>>,
     payload |-> [hazard_id |-> loc.id, hazard_type |-> loc.hazard_type,
                  latitude |-> loc.lat, longitude |-> loc.lon,
                  timestamp |-> isoformat(loc.ts)],
     qos |-> 1]

\* The calls of mqtt_client.publish one run of publish_hazard_alert makes:
\* one when the client is connected, none otherwise.
Handed(client, loc) == IF client = "connected" THEN <<Message(loc)>> ELSE <<>>

\* The route after crud.create_hazard returned: get_hazard_with_location, the
\* publish inside its own try/except, and the response. A hazard that is gone
\* raises HTTPException(500), which the outer except turns into 422.
create_hazard_respond(w, client, result) ==
    /\ req[w].pc = "ch_respond"
    /\ IF GetHazard(req[w].id) = {}
       THEN req' = [req EXCEPT ![w] = Done(w, 422, NULL)]
       ELSE req' = [req EXCEPT ![w] =
                      [Done(w, 201, req[w].id) EXCEPT
                         !.transport = TransportState(client, result),
                         !.notified = publish_hazard_alert(client, result),
                         !.sent = Handed(client,
                                         HazardOut(CHOOSE h \in GetHazard(req[w].id) : TRUE))]]
    /\ UNCHANGED <<store, pending, clock>>

\* The same part of the route, statement by statement.

\* get_hazard_with_location(db, hazard_id) in the route.
create_hazard_locate(w) ==
    /\ req[w].pc = "ch_respond"
    /\ IF GetHazard(req[w].id) = {}
       THEN req' = [req EXCEPT ![w] = Done(w, 422, NULL)]
       ELSE req' = [req EXCEPT ![w].pc = "ch_publish",
                               ![w].row2 = HazardOut(CHOOSE h \in GetHazard(req[w].id) : TRUE)]
    /\ UNCHANGED <<store, pending, clock>>

\* The route calls publish_hazard_alert, which returns False at once without
\* a connected client and else calls mqtt_client.publish.
publish_hazard_alert_call(w, client) ==
    /\ req[w].pc = "ch_publish"
    /\ req' = [req EXCEPT ![w].transport = client,
                          ![w].sent = Handed(client, req[w].row2),
                          ![w].notified = IF client = "connected" THEN "none"
                                          ELSE publish_hazard_alert(client, "success"),
                          ![w].pc = IF client = "connected" THEN "ch_publishing"
                                    ELSE "ch_return"]
    /\ UNCHANGED <<store, pending, clock>>

\* mqtt_client.publish returns or raises, and publish_hazard_alert returns to
\* the route.
publish_hazard_alert_return(w, result) ==
    /\ req[w].pc = "ch_publishing"
    /\ req' = [req EXCEPT ![w].transport = TransportState("connected", result),
                          ![w].notified = publish_hazard_alert("connected", result),
                          ![w].pc = "ch_return"]
    /\ UNCHANGED <<store, pending, clock>>

\* return HazardOut(**hazard_with_location)
create_hazard_return(w) ==
    /\ req[w].pc = "ch_return"
    /\ req' = [req EXCEPT ![w] =
                 [Done(w, 201, req[w].id) EXCEPT
                    !.op = "create_hazard", !.row2 = req[w].row2,
                    !.transport = req[w].transport,
                    !.notified = req[w].notified, !.sent = req[w].sent]]
    /\ UNCHANGED <<store, pending, clock>>

\* -------------------------------------------------------- create_alert

\* crud.create_alert, the sender lookup. The request body is AlertCreate:
\* hazard_id and receiver_device_id optional, alert_type any of AlertTypes.
\* The lookup opens the transaction, whose start time `now` the server
\* default NOW() of Alert.created_at stores.
create_alert_lookup_sender(w, hid, s, r, at, now) ==
    /\ Free(w)
    /\ LET row == LookupDevice(w, s) IN
       req' = [req EXCEPT ![w] =
                 [Idle EXCEPT !.op = "create_alert", !.id = hid, !.dev = s,
                              !.rcv = r, !.atype = at, !.row = row, !.ts = now,
                              !.pc = IF row = NULL THEN "ca_flush_sender"
                                     ELSE "ca_lookup_receiver"]]
    /\ clock' = now
    /\ UNCHANGED <<store, pending>>

\* crud.create_alert, db.add(sender_device); db.flush().
create_alert_flush_sender(w) ==
    /\ req[w].pc = "ca_flush_sender"
    /\ FlushDevice(w, req[w].dev, "unknown", "row", "ca_lookup_receiver")
    /\ UNCHANGED <<store, clock>>

\* crud.create_alert, the receiver lookup (skipped without a receiver).
create_alert_lookup_receiver(w) ==
    /\ req[w].pc = "ca_lookup_receiver"
    /\ LET row == IF req[w].rcv = "" THEN NULL ELSE LookupDevice(w, req[w].rcv) IN
       req' = [req EXCEPT ![w].row2 = row,
                          ![w].pc = IF req[w].rcv # "" /\ row = NULL
                                    THEN "ca_flush_receiver" ELSE "ca_commit"]
    /\ UNCHANGED <<store, pending, clock>>

\* crud.create_alert, db.add(receiver_device); db.flush().
create_alert_flush_receiver(w) ==
    /\ req[w].pc = "ca_flush_receiver"
    /\ FlushDevice(w, req[w].rcv, "unknown", "row2", "ca_commit")
    /\ UNCHANGED <<store, clock>>

\* Alert(hazard_id, sender_device_id, receiver_device_id, alert_type,
\* status="sent"); acknowledged_at keeps its default, NULL.
NewAlert(w) ==
    [id |-> nextAlertId, hazard_id |-> req[w].id, sender |-> req[w].row,
     receiver |-> req[w].row2, alert_type |-> req[w].atype,
     status |-> "sent", created_at |-> req[w].ts, acknowledged_at |-> NULL]

\* The commit whose rejection keeps the Device rows flushed before it.
create_alert_commit_partial(w) ==
    /\ req[w].pc = "ca_commit"
    /\ IF req[w].id # NULL /\ GetHazard(req[w].id) = {}
       THEN /\ req' = [req EXCEPT ![w] = Done(w, 422, NULL)]
            /\ devices' = devices \cup pending[w]
            /\ UNCHANGED <<alerts, nextAlertId>>
       ELSE /\ alerts' = alerts \cup {NewAlert(w)}
            /\ nextAlertId' = nextAlertId + 1
            /\ devices' = devices \cup pending[w]
            /\ req' = [req EXCEPT ![w] = Done(w, 201, nextAlertId)]
    /\ pending' = [pending EXCEPT ![w] = {}]
    /\ UNCHANGED <<hazards, configs, nextHazardId, clock>>

\* The commit without the foreign key on hazard_id.
create_alert_commit_unchecked(w) ==
    /\ req[w].pc = "ca_commit"
    /\ alerts' = alerts \cup {NewAlert(w)}
    /\ nextAlertId' = nextAlertId + 1
    /\ devices' = devices \cup pending[w]
    /\ req' = [req EXCEPT ![w] = Done(w, 201, nextAlertId)]
    /\ pending' = [pending EXCEPT ![w] = {}]
    /\ UNCHANGED <<hazards, configs, nextHazardId, clock>>

\* crud.create_alert, db.add(db_alert); db.commit(). The foreign key on
\* hazard_id rejects an alert on a hazard that is not stored.
create_alert_commit(w) ==
    /\ req[w].pc = "ca_commit"
    /\ IF req[w].id # NULL /\ GetHazard(req[w].id) = {}
       THEN /\ req' = [req EXCEPT ![w] = Done(w, 422, NULL)]
            /\ UNCHANGED <<devices, alerts, nextAlertId>>
       ELSE /\ alerts' = alerts \cup {NewAlert(w)}
            /\ nextAlertId' = nextAlertId + 1
            /\ devices' = devices \cup pending[w]
            /\ req' = [req EXCEPT ![w] = Done(w, 201, nextAlertId)]
    /\ pending' = [pending EXCEPT ![w] = {}]
    /\ UNCHANGED <<hazards, configs, nextHazardId, clock>>

\* ------------------------------------------------- get_alerts_by_device

\* The alerts a device only sent.
AlertsSentBy(key) == {a \in alerts : a.sender = key}

\* WHERE sender_device_id = key OR receiver_device_id = key
AlertsOfDevice(key) == {a \in alerts : a.sender = key \/ a.receiver = key}

\* crud.get_alerts_by_device and its route: the empty list for an unknown
\* device, else the alerts of the device ordered by created_at descending.
\* The response keeps the request it answers.
get_alerts_by_device(w, d) ==
    /\ Free(w)
    /\ LET key == LookupDevice(w, d) IN
       \E out \in (IF key = NULL THEN {<<>>}
                    ELSE OrderByDesc(AlertsOfDevice(key), "created_at")) :
          req' = [req EXCEPT ![w] =
                    [Done(w, 200, out) EXCEPT !.op = "get_alerts_by_device", !.dev = d]]
    /\ UNCHANGED <<store, pending, clock>>

\* ------------------------------------- get_hazards_nearby, get_all_hazards

Abs(n) == IF n < 0 THEN -n ELSE n

\* The length of one degree of longitude at a latitude, in units of half a
\* degree of arc on the equator (about 55.6 km): 2 cos(lat), for the
\* latitudes of the model (cos 60 = 1/2, and 1 near the equator).
DegreeOfLongitude(lat) == IF Abs(lat) = 60 THEN 1 ELSE 2

\* func.ST_Distance(cast(a, Geography), cast(b, Geography)): the distance on
\* the spheroid, in the same units, of two points of the model's grid: along
\* the parallel for points of one latitude, else at least the meridian arc
\* between the latitudes.
ST_Distance(a, b) ==
    IF ST_Y(a) = ST_Y(b)
    THEN Abs(ST_X(a) - ST_X(b)) * DegreeOfLongitude(ST_Y(a))
    ELSE 2 * Abs(ST_Y(a) - ST_Y(b))

\* The search point with latitude and longitude exchanged.
ST_MakePointLatLon(x, y) == <<y, x>>

\* ST_MakePoint(x, y), called as ST_MakePoint(lon, lat).
ST_MakePoint(x, y) == <<x, y>>

\* select(Hazard).where(distance_expr <= radius_m)
HazardsNearby(lat, lon, radius_m) ==
    {h \in hazards : ST_Distance(h.geom, ST_MakePoint(lon, lat)) <= radius_m}

\* SELECT ... OFFSET skip LIMIT limit on the rows in the order s.
Window(s, skip, limit) ==
    [i \in 1..(IF Len(s) - skip < 0 THEN 0
               ELSE IF Len(s) - skip < limit THEN Len(s) - skip ELSE limit)
       |-> s[skip + i]]

\* An optional query parameter: {} when it is omitted (None), else {value}.
\* Python's truth test of an optional string: false for None and for "".
Truthy(opt) == opt # {} /\ opt # {""}

\* The conditions crud.get_all_hazards appends for the filters f: on
\* hazard_type, start_date and end_date if the value is truthy (a datetime
\* always is), on severity_min and severity_max if it is not None.
MatchesFilters(h, f) ==
    /\ Truthy(f.hazard_type) => \A v \in f.hazard_type : h.hazard_type = v
    /\ f.severity_min # {} => \A v \in f.severity_min : h.severity >= v
    /\ f.severity_max # {} => \A v \in f.severity_max : h.severity <= v
    /\ f.start_date # {} => \A v \in f.start_date : h.ts >= v
    /\ f.end_date # {} => \A v \in f.end_date : h.ts <= v

\* The keys of the rows of a result, in its order.
Ids(s) == [i \in DOMAIN s |-> s[i].id]

\* A list route with the rows `sel` of its SELECT: it goes on to read the
\* location of each, or answers at once when there is none.
ListSelected(w, op, params, sel) ==
    [Idle EXCEPT !.op = op, !.body = params, !.todo = Ids(sel), !.out = <<>>,
                 !.pc = IF Len(sel) = 0 THEN "done" ELSE "hz_locate",
                 !.code = IF Len(sel) = 0 THEN 200 ELSE 0]

\* crud.get_hazards_nearby as the route calls it.
get_hazards_nearby(w, lat, lon, radius_m) ==
    /\ Free(w)
    /\ \E sel \in OrderByDesc(HazardsNearby(lat, lon, radius_m), "ts") :
          req' = [req EXCEPT ![w] =
                    ListSelected(w, "get_hazards_nearby",
                                 [lat |-> lat, lon |-> lon, radius_m |-> radius_m], sel)]
    /\ UNCHANGED <<store, pending, clock>>

\* crud.get_all_hazards as the route calls it, with the HazardFilter f.
get_all_hazards(w, f, skip, limit) ==
    /\ Free(w)
    /\ \E s \in OrderByDesc({h \in hazards : MatchesFilters(h, f)}, "ts") :
          req' = [req EXCEPT ![w] =
                    ListSelected(w, "get_all_hazards",
                                 [filters |-> f, skip |-> skip, limit |-> limit],
                                 Window(s, skip, limit))]
    /\ UNCHANGED <<store, pending, clock>>

\* One turn of the loop of either route: crud.get_hazard_with_location for
\* the next hazard of the result; a hazard that is gone is left out. After
\* the last one the list is returned.
get_hazard_with_location(w) ==
    /\ req[w].pc = "hz_locate"
    /\ LET found == GetHazard(Head(req[w].todo))
           out == IF found = {} THEN req[w].out
                  ELSE Append(req[w].out, HazardOut(CHOOSE h \in found : TRUE))
       IN req' = [req EXCEPT ![w].todo = Tail(req[w].todo),
                             ![w].out = out,
                             ![w].pc = IF Len(req[w].todo) = 1 THEN "done" ELSE "hz_locate",
                             ![w].code = IF Len(req[w].todo) = 1 THEN 200 ELSE 0]
    /\ UNCHANGED <<store, pending, clock>>

\* ------------------------------------------------ get_analytics_summary

\* The count with the WHERE clause left out.
CountAllAlerts(rows) == Cardinality(rows)

\* select(func.count(Alert.id)).where(Alert.status != "acknowledged")
CountActiveAlerts(rows) == Cardinality({a \in rows : a.status # "acknowledged"})

\* crud.get_analytics_summary, select(func.count(Hazard.id)).
get_analytics_summary_hazards(w) ==
    /\ Free(w)
    /\ req' = [req EXCEPT ![w] =
                 [Idle EXCEPT !.op = "get_analytics_summary", !.pc = "sum_alerts",
                              !.row = Cardinality(hazards)]]
    /\ UNCHANGED <<store, pending, clock>>

\* crud.get_analytics_summary, the count of the active alerts, the count of
\* the verified hazards (table event_verifications, which no operation
\* writes: 0) and the response: total_hazards, active_alerts, verified_count.
get_analytics_summary_alerts(w) ==
    /\ req[w].pc = "sum_alerts"
    /\ req' = [req EXCEPT ![w] =
                 [Done(w, 200, <<req[w].row, CountActiveAlerts(alerts), 0>>)
                    EXCEPT !.op = "get_analytics_summary"]]
    /\ UNCHANGED <<store, pending, clock>>

\* --------------------------------------- get_hazard_trends, get_heatmap_data

\* cast(Hazard.ts, Date): the calendar day of a time.
Date(ts) == ts \div TicksPerDay

\* timedelta(days=days)
timedelta(days) == days * TicksPerDay

\* The elements of a set of numbers in ascending order.
Ascending(S) ==
    CHOOSE s \in [1..Cardinality(S) -> S] :
        \A i, j \in 1..Cardinality(S) : i < j => s[i] < s[j]

\* select(Hazard.hazard_type, func.count(Hazard.id)).group_by(Hazard.hazard_type)
\* as the dict hazards_by_type.
HazardsByType ==
    [t \in {h.hazard_type : h \in hazards} |->
        Cardinality({h \in hazards : h.hazard_type = t})]

\* The rows of the per-day query for a start_date: WHERE Hazard.ts >=
\* start_date GROUP BY and ORDER BY cast(Hazard.ts, Date).
HazardsByDay(start_date) ==
    LET recent == {h \in hazards : h.ts >= start_date}
        dates == Ascending({Date(h.ts) : h \in recent})
    IN [i \in DOMAIN dates |->
          [date |-> dates[i],
           count |-> Cardinality({h \in recent : Date(h.ts) = dates[i]})]]

\* The heat map takes coordinates in ten-thousandths of a degree and returns
\* them in thousandths: 4 is 0.0004 degrees and falls in cell 0 (0.000), 6 and
\* 14 fall in cell 1 (0.001), -6 in cell -1.

\* The coordinate cut to 3 decimal places, toward minus infinity.
trunc(x) == x \div 10

\* func.round(cast(x, Numeric), 3): to the nearest thousandth, a tie away
\* from zero.
round(x) == IF x >= 0 THEN (x + 5) \div 10 ELSE -((5 - x) \div 10)

\* The group of a hazard: GROUP BY lon_expr, lat_expr.
GridCell(h) == [lon |-> round(ST_X(h.geom)), lat |-> round(ST_Y(h.geom))]

\* The rows of the grouped query: one per group, with func.count(Hazard.id),
\* HAVING count > 0.
Clusters ==
    {c \in {[lat |-> g.lat, lon |-> g.lon,
             count |-> Cardinality({h \in hazards : GridCell(h) = g})] :
               g \in {GridCell(h) : h \in hazards}} : c.count > 0}

\* The lists result.all() may return for a query without ORDER BY.
AnyOrder(S) ==
    {s \in [1..Cardinality(S) -> S] :
        \A i, j \in 1..Cardinality(S) : i # j => s[i] # s[j]}

\* crud.get_heatmap_data and the route's response {"clusters": ...}.
get_heatmap_data(w) ==
    /\ Free(w)
    /\ \E clusters \in AnyOrder(Clusters) :
          req' = [req EXCEPT ![w] =
                    [Done(w, 200, [clusters |-> clusters])
                       EXCEPT !.op = "get_heatmap_data"]]
    /\ UNCHANGED <<store, pending, clock>>

\* crud.get_hazard_trends, the query of the counts per type.
get_hazard_trends_by_type(w, days) ==
    /\ Free(w)
    /\ req' = [req EXCEPT ![w] =
                 [Idle EXCEPT !.op = "get_hazard_trends", !.pc = "tr_by_day",
                              !.body = days, !.row = HazardsByType]]
    /\ UNCHANGED <<store, pending, clock>>

\* crud.get_hazard_trends, start_date = datetime.now(timezone.utc) -
\* timedelta(days=days), the query of the counts per day, and the response.
get_hazard_trends_by_day(w, now) ==
    /\ req[w].pc = "tr_by_day"
    /\ req' = [req EXCEPT ![w] =
                 [Done(w, 200, [hazards_by_type |-> req[w].row,
                                hazards_by_day |->
                                   HazardsByDay(now - timedelta(req[w].body))])
                    EXCEPT !.op = "get_hazard_trends", !.body = req[w].body,
                           !.ts = now]]
    /\ clock' = now
    /\ UNCHANGED <<store, pending>>

\* ---------------------------------------------------- acknowledge_alert

\* crud.acknowledge_alert up to the attribute writes: the device lookup (None
\* returns None, the route answers 404), get_alert (None likewise), then status
\* and acknowledged_at are set on the loaded object, the time read from the
\* clock. A Device row is never removed, so the two SELECTs read as one.
acknowledge_alert_read(w, aid, d, now) ==
    /\ Free(w)
    /\ IF LookupDevice(w, d) = NULL \/ GetAlert(aid) = {}
       THEN /\ req' = [req EXCEPT ![w] =
                         [Idle EXCEPT !.pc = "done", !.code = 404]]
            /\ clock' = clock
       ELSE /\ req' = [req EXCEPT ![w] =
                         [Idle EXCEPT !.op = "acknowledge_alert", !.pc = "ack_commit",
                                      !.id = aid, !.dev = d, !.ts = now,
                                      !.seen = (CHOOSE a \in GetAlert(aid) : TRUE).status]]
            /\ clock' = now
    /\ UNCHANGED <<store, pending>>

\* The UPDATE with the timestamp forgotten.
AcknowledgedStatusOnly(a, ts) == [a EXCEPT !.status = "acknowledged"]

\* The UPDATE with the status "received" that the column comment of
\* Alert.status lists.
AcknowledgedAsReceived(a, ts) == [a EXCEPT !.status = "received", !.acknowledged_at = ts]

\* The row the UPDATE of db.commit() writes.
Acknowledged(a, ts) == [a EXCEPT !.status = "acknowledged", !.acknowledged_at = ts]

\* The commit with an UPDATE that matches no row taken as done.
acknowledge_alert_commit_unconfirmed(w) ==
    /\ req[w].pc = "ack_commit"
    /\ IF GetAlert(req[w].id) = {}
       THEN /\ req' = [req EXCEPT ![w] =
                         [Done(w, 200, req[w].ts) EXCEPT !.id = req[w].id]]
            /\ alerts' = alerts
       ELSE /\ req' = [req EXCEPT ![w].pc = "ack_refresh"]
            /\ alerts' = {IF a.id = req[w].id THEN Acknowledged(a, req[w].ts) ELSE a :
                            a \in alerts}
    /\ UNCHANGED <<devices, hazards, configs, nextHazardId, nextAlertId, pending, clock>>

\* crud.acknowledge_alert, db.commit(): UPDATE alerts SET status,
\* acknowledged_at WHERE id. A row deleted in the meantime matches nothing
\* and the flush raises StaleDataError, reported as 422.
acknowledge_alert_commit(w) ==
    /\ req[w].pc = "ack_commit"
    /\ IF GetAlert(req[w].id) = {}
       THEN /\ req' = [req EXCEPT ![w] =
                         [Done(w, 422, NULL) EXCEPT !.id = req[w].id]]
            /\ alerts' = alerts
       ELSE /\ req' = [req EXCEPT ![w].pc = "ack_refresh"]
            /\ alerts' = {IF a.id = req[w].id THEN Acknowledged(a, req[w].ts) ELSE a :
                            a \in alerts}
    /\ UNCHANGED <<devices, hazards, configs, nextHazardId, nextAlertId, pending, clock>>

\* crud.acknowledge_alert, db.refresh(alert) and the route's AlertOut: the
\* committed row is read back and its acknowledged_at returned. A row deleted
\* in the meantime raises InvalidRequestError, reported as 422.
acknowledge_alert_refresh(w) ==
    /\ req[w].pc = "ack_refresh"
    /\ IF GetAlert(req[w].id) = {}
       THEN req' = [req EXCEPT ![w] = [Done(w, 422, NULL) EXCEPT !.id = req[w].id]]
       ELSE req' = [req EXCEPT ![w] =
                      [Done(w, 200, (CHOOSE a \in GetAlert(req[w].id) : TRUE).acknowledged_at)
                         EXCEPT !.id = req[w].id, !.seen = req[w].seen]]
    /\ UNCHANGED <<store, pending, clock>>

\* ------------------------------------------------ delete_alert, delete_hazard

\* crud.delete_alert, get_alert: None returns False and the route answers 404.
delete_alert_get(w, aid) ==
    /\ Free(w)
    /\ req' = [req EXCEPT ![w] =
                 IF GetAlert(aid) = {}
                 THEN [Idle EXCEPT !.pc = "done", !.code = 404]
                 ELSE [Idle EXCEPT !.op = "delete_alert", !.pc = "da_commit", !.id = aid]]
    /\ UNCHANGED <<store, pending, clock>>

\* crud.delete_alert, db.delete(alert); db.commit().
delete_alert_commit(w) ==
    /\ req[w].pc = "da_commit"
    /\ alerts' = {a \in alerts : a.id # req[w].id}
    /\ req' = [req EXCEPT ![w] = Done(w, 204, NULL)]
    /\ UNCHANGED <<devices, hazards, configs, nextHazardId, nextAlertId, pending, clock>>

\* crud.delete_hazard, get_hazard: None returns False and the route answers 404.
delete_hazard_get(w, hid) ==
    /\ Free(w)
    /\ req' = [req EXCEPT ![w] =
                 IF GetHazard(hid) = {}
                 THEN [Idle EXCEPT !.pc = "done", !.code = 404]
                 ELSE [Idle EXCEPT !.op = "delete_hazard", !.pc = "dh_commit", !.id = hid]]
    /\ UNCHANGED <<store, pending, clock>>

\* The delete without ON DELETE CASCADE on Alert.hazard_id taking effect.
delete_hazard_commit_keeping_alerts(w) ==
    /\ req[w].pc = "dh_commit"
    /\ hazards' = {h \in hazards : h.id # req[w].id}
    /\ alerts' = alerts
    /\ req' = [req EXCEPT ![w] = Done(w, 204, NULL)]
    /\ UNCHANGED <<devices, configs, nextHazardId, nextAlertId, pending, clock>>

\* crud.delete_hazard, db.delete(hazard); db.commit(); the foreign key of
\* Alert.hazard_id is ON DELETE CASCADE.
delete_hazard_commit(w) ==
    /\ req[w].pc = "dh_commit"
    /\ hazards' = {h \in hazards : h.id # req[w].id}
    /\ alerts' = {a \in alerts : a.hazard_id # req[w].id}
    /\ req' = [req EXCEPT ![w] = Done(w, 204, NULL)]
    /\ UNCHANGED <<devices, configs, nextHazardId, nextAlertId, pending, clock>>

\* -------------------------------------------------------- device registry

\* crud.register_or_update_device, the device lookup.
register_or_update_device_lookup(w, d, t) ==
    /\ Free(w)
    /\ LET row == LookupDevice(w, d) IN
       req' = [req EXCEPT ![w] =
                 [Idle EXCEPT !.op = "register_or_update_device", !.dev = d,
                              !.atype = t, !.row = row,
                              !.pc = IF row = NULL THEN "reg_flush" ELSE "reg_commit"]]
    /\ UNCHANGED <<store, pending, clock>>

\* crud.register_or_update_device, db.add(device); db.flush().
register_or_update_device_flush(w) ==
    /\ req[w].pc = "reg_flush"
    /\ FlushDevice(w, req[w].dev, req[w].atype, "row", "reg_commit")
    /\ UNCHANGED <<store, clock>>

\* The commit with the default DeviceConfig of a new device left out.
register_or_update_device_commit_without_config(w) ==
    /\ req[w].pc = "reg_commit"
    /\ devices' = {IF r.id = req[w].row THEN [r EXCEPT !.device_type = req[w].atype]
                   ELSE r : r \in devices} \cup pending[w]
    /\ configs' = configs
    /\ pending' = [pending EXCEPT ![w] = {}]
    /\ req' = [req EXCEPT ![w] = Done(w, 200, NULL)]
    /\ UNCHANGED <<hazards, alerts, nextHazardId, nextAlertId, clock>>

\* crud.register_or_update_device, db.commit(): the UPDATE of the device found,
\* or the new device together with its DeviceConfig. The response is the
\* Device row.
register_or_update_device_commit(w) ==
    /\ req[w].pc = "reg_commit"
    /\ devices' = {IF r.id = req[w].row THEN [r EXCEPT !.device_type = req[w].atype]
                   ELSE r : r \in devices} \cup pending[w]
    /\ configs' = configs \cup {NewConfig(r.id) : r \in pending[w]}
    /\ pending' = [pending EXCEPT ![w] = {}]
    /\ req' = [req EXCEPT ![w] = Done(w, 200, NULL)]
    /\ UNCHANGED <<hazards, alerts, nextHazardId, nextAlertId, clock>>

\* crud.update_device_heartbeat and its route: 404 for an unknown device,
\* else last_active and last_seen are written (columns not modelled).
update_device_heartbeat(w, d) ==
    /\ Free(w)
    /\ req' = [req EXCEPT ![w] =
                 IF LookupDevice(w, d) = NULL
                 THEN [Idle EXCEPT !.pc = "done", !.code = 404]
                 ELSE [Idle EXCEPT !.pc = "done", !.code = 200]]
    /\ UNCHANGED <<store, pending, clock>>

\* crud.get_device_config up to its SELECT on device_configs: an unknown
\* device returns None and the route answers 404; a config found is returned;
\* else a default DeviceConfig is added to the session.
get_device_config_read(w, d) ==
    /\ Free(w)
    /\ LET key == LookupDevice(w, d) IN
       req' = [req EXCEPT ![w] =
                 IF key = NULL THEN [Idle EXCEPT !.pc = "done", !.code = 404]
                 ELSE [Idle EXCEPT !.op = "get_device_config", !.dev = d, !.row = key,
                                   !.pc = IF ConfigsOf(configs, key) = {}
                                          THEN "cfg_commit" ELSE "cfg_respond"]]
    /\ UNCHANGED <<store, pending, clock>>

\* crud.get_device_config, db.add(config); db.commit(). Column device_id of
\* DeviceConfig is unique: the INSERT of a second row for the device raises
\* IntegrityError, which the route does not catch, and the answer is 500.
get_device_config_commit(w) ==
    /\ req[w].pc = "cfg_commit"
    /\ IF ConfigsOf(configs, req[w].row) # {}
       THEN /\ req' = [req EXCEPT ![w] = Done(w, 500, NULL)]
            /\ configs' = configs
       ELSE /\ req' = [req EXCEPT ![w].pc = "cfg_respond"]
            /\ configs' = configs \cup {NewConfig(req[w].row)}
    /\ UNCHANGED <<devices, hazards, alerts, nextHazardId, nextAlertId, pending, clock>>

\* The config as the route returns it in SystemConfig: detection_interval,
\* alert_radius, min_confidence_threshold.
SystemConfig(c) ==
    <<c.detection_interval, c.alert_radius, c.min_confidence_threshold>>

\* db.refresh(config) where the config was created, then the route: the
\* device is looked up again and the stored values are returned.
get_device_config_respond(w) ==
    /\ req[w].pc = "cfg_respond"
    /\ req' = [req EXCEPT ![w] =
                 Done(w, 200, SystemConfig(CHOOSE c \in ConfigsOf(configs, req[w].row) : TRUE))]
    /\ UNCHANGED <<store, pending, clock>>

\* ------------------------------------------------------ the operations

\* The steps of the requests, for the handler threads W and the inputs the
\* requests carry. A specification bounds the rows it lets requests create.

\* Device registry: device ids D.
RegistryOps(W, D) ==
    \/ \E w \in W, d \in D, t \in RegisteredTypes :
          register_or_update_device_lookup(w, d, t)
    \/ \E w \in W : register_or_update_device_flush(w)
    \/ \E w \in W : register_or_update_device_commit(w)
    \/ \E w \in W, d \in D : update_device_heartbeat(w, d)

\* The clock between two readings: it stands still, or it may have advanced.
Still == {0}
Advancing == {0, 1}

\* The values datetime.now() and NOW() may return next: the value returned
\* before plus a step of K, up to MaxClock.
Now(K) == {t \in {clock + k : k \in K} : t <= MaxClock}

\* The same over several days: the clock stands still or advances by up to a
\* day, up to MaxTick.
Later == {t \in clock..(clock + TicksPerDay) : t <= MaxTick}

\* Config reads: device ids D.
ConfigOps(W, D) ==
    \/ \E w \in W, d \in D : get_device_config_read(w, d)
    \/ \E w \in W : get_device_config_commit(w)
    \/ \E w \in W : get_device_config_respond(w)

\* Alert lists: device ids D.
ListByDeviceOps(W, D) == \E w \in W, d \in D : get_alerts_by_device(w, d)

\* Radius queries: latitudes LA, longitudes LO, radii R.
NearbyOps(W, LA, LO, R) ==
    \/ \E w \in W, lat \in LA, lon \in LO, radius_m \in R :
          get_hazards_nearby(w, lat, lon, radius_m)
    \/ \E w \in W : get_hazard_with_location(w)

\* Filtered lists: filters F, offsets SK, limits LI.
ListOps(W, F, SK, LI) ==
    \/ \E w \in W, f \in F, skip \in SK, limit \in LI :
          get_all_hazards(w, f, skip, limit)
    \/ \E w \in W : get_hazard_with_location(w)

SummaryOps(W) ==
    \/ \E w \in W : get_analytics_summary_hazards(w)
    \/ \E w \in W : get_analytics_summary_alerts(w)

\* Hazard creation: device ids D, bodies B, at most `cap` hazards.
CreateHazardOps(W, D, B, cap, K) ==
    \/ /\ nextHazardId + Cardinality(Running("create_hazard")) <= cap
       /\ \E w \in W, d \in D, b \in B, now \in Now(K) :
             create_hazard_lookup(w, d, b, now)
    \/ \E w \in W : create_hazard_flush(w)
    \/ \E w \in W : create_hazard_commit(w)
    \/ \E w \in W, client \in ClientStates, result \in PublishResults :
          create_hazard_respond(w, client, result)

\* Hazard creation with the route's notification statement by statement.
CreateHazardNotifyOps(W, D, B, cap, K) ==
    \/ /\ nextHazardId + Cardinality(Running("create_hazard")) <= cap
       /\ \E w \in W, d \in D, b \in B, now \in Now(K) :
             create_hazard_lookup(w, d, b, now)
    \/ \E w \in W : create_hazard_flush(w)
    \/ \E w \in W : create_hazard_commit(w)
    \/ \E w \in W : create_hazard_locate(w)
    \/ \E w \in W, client \in ClientStates : publish_hazard_alert_call(w, client)
    \/ \E w \in W, result \in PublishResults : publish_hazard_alert_return(w, result)
    \/ \E w \in W : create_hazard_return(w)

\* Hazard creation over several days.
CreateHazardLaterOps(W, D, B, cap) ==
    \/ /\ nextHazardId + Cardinality(Running("create_hazard")) <= cap
       /\ \E w \in W, d \in D, b \in B, now \in Later :
             create_hazard_lookup(w, d, b, now)
    \/ \E w \in W : create_hazard_flush(w)
    \/ \E w \in W : create_hazard_commit(w)
    \/ \E w \in W, client \in ClientStates, result \in PublishResults :
          create_hazard_respond(w, client, result)

\* Trends: windows of DAYS days.
TrendsOps(W, DAYS) ==
    \/ \E w \in W, days \in DAYS : get_hazard_trends_by_type(w, days)
    \/ \E w \in W, now \in Later : get_hazard_trends_by_day(w, now)

HeatmapOps(W) == \E w \in W : get_heatmap_data(w)

DeleteHazardOps(W, cap) ==
    \/ \E w \in W, hid \in 1..cap : delete_hazard_get(w, hid)
    \/ \E w \in W : delete_hazard_commit(w)

\* Alert creation: senders S, receivers R ("" for none), alert types AT,
\* hazard ids H (NULL for none), at most `cap` alerts.
CreateAlertOps(W, S, R, AT, H, cap, K) ==
    \/ /\ nextAlertId + Cardinality(Running("create_alert")) <= cap
       /\ \E w \in W, hid \in H, s \in S, r \in R, at \in AT, now \in Now(K) :
             create_alert_lookup_sender(w, hid, s, r, at, now)
    \/ \E w \in W : create_alert_flush_sender(w)
    \/ \E w \in W : create_alert_lookup_receiver(w)
    \/ \E w \in W : create_alert_flush_receiver(w)
    \/ \E w \in W : create_alert_commit(w)

DeleteAlertOps(W, cap) ==
    \/ \E w \in W, aid \in 1..cap : delete_alert_get(w, aid)
    \/ \E w \in W : delete_alert_commit(w)

\* Acknowledgment: alert ids 1..cap, device ids D.
AcknowledgeOps(W, D, cap, K) ==
    \/ \E w \in W, aid \in 1..cap, d \in D, now \in Now(K) :
          acknowledge_alert_read(w, aid, d, now)
    \/ \E w \in W : acknowledge_alert_commit(w)
    \/ \E w \in W : acknowledge_alert_refresh(w)

\* ---------------------------------------------------- specifications

\* Every operation, on both handler threads. Hazards come from d1, alerts go
\* from d1 to nobody or to d2, d2 registers, sends heartbeats and
\* acknowledges; the clock stands still.
Next ==
    \/ RegistryOps(Workers, {"d2"})
    \/ CreateHazardOps(Workers, {"d1"}, OneBody, MaxHazards, Still)
    \/ DeleteHazardOps(Workers, MaxHazards)
    \/ CreateAlertOps(Workers, {"d1"}, {"", "d2"}, {"local"},
                      {NULL} \cup (1..MaxHazards), MaxAlerts, Still)
    \/ DeleteAlertOps(Workers, MaxAlerts)
    \/ AcknowledgeOps(Workers, {"d2"}, MaxAlerts, Still)

Spec == Init /\ [][Next]_vars

\* The alert lifecycle: alerts from d1 to nobody or to d2, acknowledged by
\* either device at advancing times, deleted; d2 may register on its own.
NextAlerts ==
    \/ RegistryOps(Workers, {"d2"})
    \/ CreateAlertOps(Workers, {"d1"}, {"", "d2"}, {"V2V"}, {NULL}, MaxAlerts, Still)
    \/ DeleteAlertOps(Workers, MaxAlerts)
    \/ AcknowledgeOps(Workers, DeviceIds, MaxAlerts, Advancing)

SpecAlerts == Init /\ [][NextAlerts]_vars

\* Alert creation alone, over every request body.
NextCreateAlert ==
    CreateAlertOps(Workers, DeviceIds, {""} \cup DeviceIds, AlertTypes,
                   {NULL} \cup (1..MaxHazards), MaxAlerts, Still)

SpecCreateAlert == Init /\ [][NextCreateAlert]_vars

\* Racing first references to a device: hazards and registrations of d1,
\* alerts between d1 and d2 in both directions.
NextDevices ==
    \/ RegistryOps(Workers, {"d1"})
    \/ CreateHazardOps(Workers, {"d1"}, OneBody, MaxRacing, Still)
    \/ CreateAlertOps(Workers, DeviceIds, DeviceIds, {"local"}, {NULL}, MaxRacing, Still)
    \/ \E w \in Workers : deadlock_abort(w)

SpecDevices == Init /\ [][NextDevices]_vars

\* Hazard creation and deletion, with every state of the transport.
NextHazards ==
    \/ CreateHazardOps(Workers, DeviceIds, OneBody, MaxRacing, Still)
    \/ DeleteHazardOps(Workers, MaxRacing)

SpecHazards == Init /\ [][NextHazards]_vars

\* The device registry and its configs: d1 registers, is auto-created by a
\* hazard, sends heartbeats, and its config is read.
NextConfigs ==
    \/ RegistryOps(Workers, {"d1"})
    \/ CreateHazardOps(Workers, {"d1"}, OneBody, MaxHazards, Still)
    \/ ConfigOps(Workers, {"d1"})

SpecConfigs == Init /\ [][NextConfigs]_vars

\* A hazard and the alerts on it: one thread creates hazards of d1, the other
\* deletes hazards, both create alerts of d1 to nobody or to d2, on a hazard
\* or on none.
NextCascade ==
    \/ CreateHazardOps({"w1"}, {"d1"}, OneBody, MaxRacing, Still)
    \/ DeleteHazardOps({"w2"}, MaxRacing)
    \/ CreateAlertOps(Workers, {"d1"}, {"", "d2"}, {"local"},
                      {NULL} \cup (1..MaxRacing), MaxRacing, Still)

SpecCascade == Init /\ [][NextCascade]_vars

\* Hazard creation over bodies in and out of range.
NextValidation ==
    CreateHazardOps(Workers, {"d1"},
                    HazardBodies(HazardTypes, {90, 91}, {-180, -181}, {10, 11}, {0, -1}),
                    MaxHazards, Still)

SpecValidation == Init /\ [][NextValidation]_vars

\* Creations that fail midway: alerts of d1 on a hazard that may not exist, to
\* a receiver d2 that registers at the same time, and hazards of d1.
NextAtomic ==
    \/ RegistryOps(Workers, {"d2"})
    \/ CreateHazardOps(Workers, {"d1"}, OneBody, MaxHazards, Still)
    \/ CreateAlertOps(Workers, {"d1"}, {"", "d2"}, {"local"},
                      {NULL} \cup (1..MaxHazards), MaxAlerts, Still)

SpecAtomic == Init /\ [][NextAtomic]_vars

\* The alerts of a device: one thread creates, at advancing times, and
\* deletes alerts of d1 to nobody or to d2, the other lists the alerts of d1
\* and of d2.
NextListByDevice ==
    \/ CreateAlertOps({"w1"}, {"d1"}, {"", "d2"}, {"local"}, {NULL}, MaxListed, Advancing)
    \/ DeleteAlertOps({"w1"}, MaxListed)
    \/ ListByDeviceOps({"w2"}, DeviceIds)

SpecListByDevice == Init /\ [][NextListByDevice]_vars

\* The summary: one thread creates and deletes hazards of d1, creates alerts
\* of d1 to d2 on the first hazard or on none, acknowledges and deletes them,
\* the other asks for the summary.
NextSummary ==
    \/ CreateHazardOps({"w1"}, {"d1"}, OneBody, MaxListed, Still)
    \/ DeleteHazardOps({"w1"}, MaxListed)
    \/ CreateAlertOps({"w1"}, {"d1"}, {"d2"}, {"V2V"}, {NULL, 1}, MaxListed, Still)
    \/ AcknowledgeOps({"w1"}, {"d1"}, MaxListed, Still)
    \/ DeleteAlertOps({"w1"}, MaxListed)
    \/ SummaryOps({"w2"})

SpecSummary == Init /\ [][NextSummary]_vars

\* Radius queries: one thread creates, at advancing times, and deletes
\* hazards on the equator and on the 60th parallel, at longitudes 0 and 1; the
\* other asks for the hazards near longitude 0 there, within 1 or 2 units.
NextNearby ==
    \/ CreateHazardOps({"w1"}, {"d1"},
                       HazardBodies(HazardTypes, {0, 60}, {0, 1}, {10}, {10}),
                       MaxListed, Advancing)
    \/ DeleteHazardOps({"w1"}, MaxListed)
    \/ NearbyOps({"w2"}, {0, 60}, {0}, {1, 2})

SpecNearby == Init /\ [][NextNearby]_vars

\* The query parameters of the list route: each filter omitted or supplied,
\* without the empty ranges (severity from 0.5 to 0, time from 2 to 1).
HazardFilters ==
    {f \in [hazard_type : {{}, {""}, {"pothole"}},
            severity_min : {{}, {5}}, severity_max : {{}, {0}},
            start_date : {{}, {2}}, end_date : {{}, {1}}] :
        /\ f.severity_min = {} \/ f.severity_max = {}
        /\ f.start_date = {} \/ f.end_date = {}}

\* Filtered lists: one thread creates, at advancing times, potholes and
\* debris of severity 0 and 0.5, the other lists them.
NextList ==
    \/ CreateHazardOps({"w1"}, {"d1"},
                       HazardBodies({"pothole", "debris"}, {0}, {0}, {0, 5}, {10}),
                       MaxListed, Advancing)
    \/ ListOps({"w2"}, HazardFilters, {0, 1}, {1, 2})

SpecList == Init /\ [][NextList]_vars

\* Trends: one thread creates potholes and debris over the days up to
\* MaxTick, the other asks for the trends of the last day or the last two.
NextTrends ==
    \/ CreateHazardLaterOps({"w1"}, {"d1"},
                            HazardBodies({"pothole", "debris"}, {0}, {0}, {10}, {10}),
                            MaxListed)
    \/ TrendsOps({"w2"}, {1, 2})

SpecTrends == Init /\ [][NextTrends]_vars

\* Heat map: one thread creates and deletes hazards at latitudes 0.0004,
\* 0.0006 and 0.0014 and longitudes 0 and -0.0006, the other asks for the
\* heat map.
NextHeatmap ==
    \/ CreateHazardOps({"w1"}, {"d1"},
                       HazardBodies(HazardTypes, {4, 6, 14}, {0, -6}, {10}, {10}),
                       MaxListed, Still)
    \/ DeleteHazardOps({"w1"}, MaxListed)
    \/ HeatmapOps({"w2"})

SpecHeatmap == Init /\ [][NextHeatmap]_vars

\* The notifier: one thread creates, at advancing times, potholes and debris
\* at latitude 1 and longitude 2, with the transport in any state; the other
\* deletes hazards.
NextNotifier ==
    \/ CreateHazardNotifyOps({"w1"}, {"d1"},
                             HazardBodies({"pothole", "debris"}, {1}, {2}, {10}, {10}),
                             MaxListed, Advancing)
    \/ DeleteHazardOps({"w2"}, MaxListed)

SpecNotifier == Init /\ [][NextNotifier]_vars

\* Acknowledge racing with delete: one thread creates a hazard and an alert
\* from d1 to d2, on the hazard or on none, and deletes the alert or the hazard;
\* the other acknowledges as d2 at advancing times.
NextAckDelete ==
    \/ CreateHazardOps({"w2"}, {"d1"}, OneBody, MaxHazards, Still)
    \/ CreateAlertOps({"w2"}, {"d1"}, {"d2"}, {"V2V"}, {NULL} \cup (1..MaxHazards),
                      MaxAlerts, Still)
    \/ DeleteAlertOps({"w2"}, MaxAlerts)
    \/ DeleteHazardOps({"w2"}, MaxHazards)
    \/ AcknowledgeOps({"w1"}, {"d2"}, MaxAlerts, Advancing)

SpecAckDelete == Init /\ [][NextAckDelete]_vars

\* ------------------------------------------------------------- claims

\* The handler thread w takes this step.
Steps(w) == req'[w] # req[w]

RowsOf(rows, d) == {r \in rows : r.device_id = d}

\* The device of the acknowledge request of w is the sender or the receiver
\* of the alert it names.
SenderOrReceiver(w) ==
    \E a \in GetAlert(req[w].id) :
        /\ LookupDevice(w, req[w].dev) # NULL
        /\ LookupDevice(w, req[w].dev) \in {a.sender, a.receiver}

\* C1: acknowledge fails closed. A request gets past its reads only when the
\* alert exists and the device is registered, and a request of a device that
\* is neither the sender nor the receiver of the (stored) alert ends with
\* not-found and leaves the alerts as they are.
C1_AcknowledgeFailsClosed ==
    [][\A w \in Workers :
         /\ (req'[w].pc = "ack_commit" /\ req[w].pc # "ack_commit")
               => /\ GetAlert(req'[w].id) # {}
                  /\ LookupDevice(w, req'[w].dev) # NULL
         /\ (req[w].pc = "ack_commit" /\ Steps(w)
               /\ GetAlert(req[w].id) # {} /\ ~SenderOrReceiver(w))
               => /\ alerts' = alerts
                  /\ req'[w].pc = "done"
                  /\ req'[w].code = 404]_vars

\* C2: acknowledge is idempotent. Once an alert is acknowledged, no later
\* step changes its stored acknowledged_at.
C2_AcknowledgedAtKept ==
    [][\A a \in alerts : \A b \in alerts' :
         (a.id = b.id /\ a.status = "acknowledged")
            => b.acknowledged_at = a.acknowledged_at]_vars

\* Two finished acknowledge requests of the same alert that both loaded it
\* while it was still in status sent: each read it before the other committed.
Interleaved(w, v) ==
    /\ w # v
    /\ req[w].pc = "done" /\ req[v].pc = "done"
    /\ req[w].code = 200 /\ req[v].code = 200
    /\ req[w].seen = "sent" /\ req[v].seen = "sent"
    /\ req[w].id = req[v].id

\* C3: two interleaved acknowledge requests of one alert behave as if
\* serialized. Both callers are given the same acknowledged_at, and it is the
\* stored one.
C3_AcknowledgeSerialized ==
    \A w, v \in Workers :
        Interleaved(w, v)
           => /\ req[w].out = req[v].out
              /\ \A a \in GetAlert(req[w].id) : a.acknowledged_at = req[w].out

\* C4: racing first references to a device_id leave at most one Device row
\* with it in every committed state, and exactly one as soon as a hazard or
\* alert request that carries it has committed.
C4_OneDeviceRow ==
    [][/\ \A d \in DeviceIds : Cardinality(RowsOf(devices', d)) <= 1
       /\ \A w \in Workers :
            /\ (req[w].pc = "ch_commit" /\ Steps(w))
                  => Cardinality(RowsOf(devices', req[w].dev)) = 1
            /\ (req[w].pc = "ca_commit" /\ Steps(w) /\ alerts' # alerts)
                  => /\ Cardinality(RowsOf(devices', req[w].dev)) = 1
                     /\ req[w].rcv # ""
                           => Cardinality(RowsOf(devices', req[w].rcv)) = 1]_vars

\* A request looked a device_id up, found none, and before its INSERT another
\* request has committed a row with that device_id.
C4_Witness ==
    \E w \in Workers :
        /\ req[w].pc \in {"ch_flush", "ca_flush_sender", "ca_flush_receiver"}
        /\ RowsOf(devices, InsertTarget(w)) # {}
        /\ hazards # {}

\* C5: a hazard or alert request that loses the uniqueness race on its
\* device_id is retried or reads the row back: its INSERT step does not end
\* the request (with a failure).
C5_ConflictRetried ==
    [][\A w \in Workers :
         (/\ req[w].pc \in {"ch_flush", "ca_flush_sender", "ca_flush_receiver"}
          /\ UniqueViolation(InsertTarget(w))
          /\ Steps(w))
            => req'[w].pc # "done"]_vars

\* C6: hazard creation is isolated from the notifier. Whatever the transport
\* does, the request whose hazard is stored answers 201 with the created
\* record, the publish step leaves the store as it is, and every transport
\* state but a successful publish is reported as failed.
C6_NotifierIsolated ==
    [][\A w \in Workers :
         (req[w].pc = "ch_respond" /\ Steps(w) /\ GetHazard(req[w].id) # {})
            => /\ req'[w].pc = "done"
               /\ req'[w].code = 201
               /\ req'[w].out = req[w].id
               /\ store' = store
               /\ req'[w].transport \in (ClientStates \cup PublishResults) \ {"connected"}
               /\ req'[w].notified =
                     IF req'[w].transport = "success" THEN "ok" ELSE "failed"]_vars

\* A request answered 201 although the publish raised, its hazard stored.
C6_Witness ==
    \E w \in Workers :
        /\ req[w].pc = "done" /\ req[w].code = 201
        /\ req[w].transport = "raise" /\ req[w].notified = "failed"
        /\ GetHazard(req[w].out) # {}
        /\ \E v \in Workers :
              /\ req[v].pc = "done" /\ req[v].code = 201
              /\ req[v].transport \in {"none", "disconnected", "rc_error"}

DeviceKeys(rows) == {r.id : r \in rows}

\* Every hazard and alert references Device rows that exist.
ReferencesExist ==
    /\ \A h \in hazards : h.device \in DeviceKeys(devices)
    /\ \A a \in alerts :
          /\ a.sender \in DeviceKeys(devices)
          /\ a.receiver # NULL => a.receiver \in DeviceKeys(devices)

\* C7: after every step of every operation each hazard's device key and each
\* alert's sender and non-null receiver key reference a stored Device row; a
\* Device row that appears together with a hazard or an alert has
\* device_type "unknown"; and no step removes a Device row.
C7_DevicesReferenced ==
    [][/\ ReferencesExist'
       /\ \A r \in devices :
             \E q \in devices' : q.id = r.id /\ q.device_id = r.device_id
       /\ (hazards' # hazards \/ alerts' # alerts)
             => \A q \in devices' \ devices : q.device_type = "unknown"]_vars

\* A hazard of an auto-created device and an alert to a receiver are stored.
C7_Witness ==
    /\ \E h \in hazards : \E r \in devices :
          r.id = h.device /\ r.device_type = "unknown"
    /\ \E a \in alerts : a.receiver # NULL /\ a.receiver # a.sender
    /\ \E r \in devices : r.device_type # "unknown"

\* C8: every stored alert has a receiver if and only if its alert_type is V2V.
C8_ReceiverIffV2V ==
    \A a \in alerts : (a.receiver # NULL) <=> (a.alert_type = "V2V")

\* C9: every stored alert has acknowledged_at set if and only if its status
\* is acknowledged.
C9_AcknowledgedAtIffAcknowledged ==
    \A a \in alerts : (a.acknowledged_at # NULL) <=> (a.status = "acknowledged")

\* An acknowledged alert is stored while a concurrent acknowledgment of it is
\* about to commit.
C9_Witness ==
    \E a \in alerts :
        /\ a.status = "acknowledged" /\ a.acknowledged_at # NULL
        /\ \E w \in Workers : req[w].pc = "ack_commit" /\ req[w].id = a.id

\* C10: an alert appears in status sent; its status is sent or acknowledged;
\* the only change of status is from sent to acknowledged, so an acknowledged
\* alert stays acknowledged while it is stored.
C10_Lifecycle ==
    [][/\ \A b \in alerts' : b.status \in {"sent", "acknowledged"}
       /\ \A b \in alerts' :
             (\A a \in alerts : a.id # b.id) => b.status = "sent"
       /\ \A a \in alerts : \A b \in alerts' :
             (a.id = b.id /\ a.status # b.status)
                => (a.status = "sent" /\ b.status = "acknowledged")]_vars

\* An alert that was acknowledged again after it was acknowledged.
C10_Witness ==
    \E a \in alerts : \E w \in Workers :
        /\ a.status = "acknowledged"
        /\ req[w].pc = "done" /\ req[w].code = 200
        /\ req[w].id = a.id /\ req[w].seen = "acknowledged"

\* C14: registering a brand-new device creates the Device and its default
\* DeviceConfig in one committed step: the step of registerOrUpdate that makes
\* a Device row visible adds exactly one DeviceConfig of it, with the default
\* values; no step removes or changes a DeviceConfig, and no step leaves a
\* device with two.
C14_RegisterCreatesConfig ==
    [][/\ \A w \in Workers :
            (req[w].pc = "reg_commit" /\ Steps(w))
               => \A r \in devices' :
                     r.id \notin DeviceKeys(devices)
                        => /\ Cardinality(ConfigsOf(configs', r.id)) = 1
                           /\ \A c \in ConfigsOf(configs', r.id) :
                                 SystemConfig(c) = <<5, 500, 7>>
       /\ configs \subseteq configs'
       /\ \A r \in devices' : Cardinality(ConfigsOf(configs', r.id)) <= 1]_vars

\* A device that registerOrUpdate created is stored with its config while a
\* read of its config and another registration of it are under way.
C14_Witness ==
    /\ \E r \in devices :
          r.device_type # "unknown" /\ Cardinality(ConfigsOf(configs, r.id)) = 1
    /\ hazards = {}
    /\ \E w \in Workers : req[w].pc = "cfg_respond"
    /\ \E w \in Workers : req[w].pc = "reg_commit"

\* C15: getOrCreateDefaultConfig is race-safe. A config read of an existing
\* device never fails: the step that inserts the default config does not end
\* the request with an error.
C15_ConfigReadNeverFails ==
    [][\A w \in Workers :
         (req[w].pc \in {"cfg_commit", "cfg_respond"} /\ Steps(w))
            => (req'[w].pc = "done" => req'[w].code = 200)]_vars

\* C16: after registerOrUpdate(d) has returned, device d has a DeviceConfig,
\* also when its Device row existed before.
C16_RegisteredHasConfig ==
    [][\A w \in Workers :
         (req[w].pc = "reg_commit" /\ Steps(w))
            => \A r \in RowsOf(devices', req[w].dev) :
                  ConfigsOf(configs', r.id) # {}]_vars

\* The alerts listByDevice returns for device_id d in the given tables.
ListedFor(devs, als, d) ==
    {a \in als : \E r \in RowsOf(devs, d) : a.sender = r.id \/ a.receiver = r.id}

\* C11: delete(hazard_id) cascades to alerts and nothing else. The committing
\* step of a delete of hazard h removes h and the alerts on h, after which
\* listByDevice returns no alert on h for any device, and it leaves every
\* other hazard, every alert on another hazard or on none, and every device
\* and config as they were; a delete that finds no hazard answers not-found
\* and changes nothing.
C11_DeleteCascades ==
    [][\A w \in Workers :
         /\ (req[w].pc = "dh_commit" /\ Steps(w))
               => /\ req'[w].code = 204
                  /\ \A d \in DeviceIds :
                        \A a \in ListedFor(devices', alerts', d) :
                           a.hazard_id # req[w].id
                  /\ hazards' = {h \in hazards : h.id # req[w].id}
                  /\ \A a \in alerts : a.hazard_id # req[w].id => a \in alerts'
                  /\ alerts' \subseteq alerts
                  /\ devices' = devices /\ configs' = configs
         /\ \A hid \in 1..MaxRacing :
               (delete_hazard_get(w, hid) /\ GetHazard(hid) = {})
                  => /\ req'[w].pc = "done" /\ req'[w].code = 404
                     /\ store' = store]_vars

\* A hazard with an alert on it was deleted: the other hazard, the alert on
\* none and the device are stored, the alert on the deleted hazard is not.
C11_Witness ==
    /\ nextHazardId = 3 /\ Cardinality(hazards) = 1
    /\ nextAlertId = 3 /\ Cardinality(alerts) = 1
    /\ \A a \in alerts : a.hazard_id = NULL
    /\ \E w \in Workers : req[w].pc = "done" /\ req[w].code = 204
    /\ devices # {}

\* C12: every stored hazard has its latitude in [-90, 90], its longitude in
\* [-180, 180] and its severity and confidence in [0, 1].
C12_StoredHazardsInRange ==
    \A h \in hazards :
        /\ ST_Y(h.geom) \in -90..90
        /\ ST_X(h.geom) \in -180..180
        /\ h.severity \in 0..10
        /\ h.confidence \in 0..10

Range(s) == {s[i] : i \in DOMAIN s}

\* C17: listByDevice(device_id) answers with exactly the stored alerts whose
\* sender or receiver is that device, each once, ordered by created_at
\* descending; with the empty list for an unknown device_id; and it changes
\* no table and no session.
C17_ListByDevice ==
    [][\A w \in Workers :
         (req'[w].op = "get_alerts_by_device" /\ Steps(w))
            => /\ req'[w].pc = "done" /\ req'[w].code = 200
               /\ Range(req'[w].out) = ListedFor(devices, alerts, req'[w].dev)
               /\ Len(req'[w].out) = Cardinality(ListedFor(devices, alerts, req'[w].dev))
               /\ \A i, j \in DOMAIN req'[w].out :
                     i < j => req'[w].out[i].created_at >= req'[w].out[j].created_at
               /\ RowsOf(devices, req'[w].dev) = {} => req'[w].out = <<>>
               /\ store' = store /\ pending' = pending]_vars

\* The list of d2 holds the one alert d2 received, the later of two stored.
C17_Witness ==
    \E w \in Workers :
        /\ req[w].op = "get_alerts_by_device" /\ req[w].dev = "d2"
        /\ Len(req[w].out) = 1
        /\ Cardinality(alerts) = 2
        /\ \A a \in alerts : a.created_at <= req[w].out[1].created_at
        /\ \E a \in alerts : a.created_at < req[w].out[1].created_at

\* The stored alerts whose status is acknowledged.
AcknowledgedAlerts(rows) == {a \in rows : a.status = "acknowledged"}

\* C20: summary() reports as total_hazards the number of stored hazards and
\* as active_alerts the number of stored alerts that are not acknowledged,
\* each as its count finds the store; and the committing step of an
\* acknowledgment lowers the number of active alerts by one when the alert was
\* not acknowledged before, and by nothing when it was.
C20_Summary ==
    [][\A w \in Workers :
         /\ (req'[w].pc = "sum_alerts" /\ Steps(w))
               => req'[w].row = Cardinality(hazards)
         /\ (req[w].pc = "sum_alerts" /\ Steps(w))
               => /\ req'[w].pc = "done" /\ req'[w].code = 200
                  /\ req'[w].out[1] = req[w].row
                  /\ req'[w].out[2] =
                        Cardinality(alerts) - Cardinality(AcknowledgedAlerts(alerts))
                  /\ store' = store
         /\ (req[w].pc = "ack_commit" /\ Steps(w) /\ GetAlert(req[w].id) # {})
               => CountActiveAlerts(alerts') =
                     CountActiveAlerts(alerts)
                        - (IF GetAlert(req[w].id) \subseteq AcknowledgedAlerts(alerts)
                           THEN 0 ELSE 1)]_vars

\* A summary of one hazard and one active alert has been given; a hazard has
\* been deleted since the store was empty and the alert left is acknowledged.
C20_Witness ==
    \E w \in Workers :
        /\ req[w].op = "get_analytics_summary" /\ req[w].pc = "done"
        /\ req[w].out = <<1, 1, 0>>
        /\ Cardinality(hazards) = 1 /\ nextHazardId = 3
        /\ Cardinality(alerts) = 1 /\ Cardinality(AcknowledgedAlerts(alerts)) = 1

\* The distance on the spheroid between two places given by latitude and
\* longitude, in units of half a degree of arc on the equator.
Geodesic(lat1, lon1, lat2, lon2) ==
    IF lat1 = lat2 THEN Abs(lon1 - lon2) * DegreeOfLongitude(lat1)
    ELSE 2 * Abs(lat1 - lat2)

\* The hazards within the radius of the point of a radius query.
Within(q) ==
    {h \in hazards :
        Geodesic(ST_Y(h.geom), ST_X(h.geom), q.lat, q.lon) <= q.radius_m}

\* Each turn of the loop of a list route returns the next selected hazard as
\* it is stored, or leaves it out when it is stored no more.
LocatedAsStored(w) ==
    (req[w].pc = "hz_locate" /\ Steps(w))
       => /\ req'[w].todo = Tail(req[w].todo)
          /\ \A h \in GetHazard(Head(req[w].todo)) :
                /\ Len(req'[w].out) = Len(req[w].out) + 1
                /\ \A i \in DOMAIN req[w].out : req'[w].out[i] = req[w].out[i]
                /\ LET o == req'[w].out[Len(req'[w].out)] IN
                      /\ o.id = h.id /\ o.ts = h.ts
                      /\ o.lat = ST_Y(h.geom) /\ o.lon = ST_X(h.geom)
                      /\ o.hazard_type = h.hazard_type /\ o.severity = h.severity
          /\ GetHazard(Head(req[w].todo)) = {} => req'[w].out = req[w].out
          /\ (req'[w].pc = "done") <=> (req'[w].todo = <<>>)
          /\ req'[w].pc = "done" => req'[w].code = 200
          /\ store' = store

\* C18: nearby(lat, lon, radius_m) selects exactly the stored hazards whose
\* geodesic distance from (lat, lon) is at most radius_m, each once, ordered
\* by timestamp descending, and returns each of them that is still stored
\* when its location is read, in that order.
C18_Nearby ==
    [][\A w \in Workers :
         /\ (Free(w) /\ Steps(w) /\ req'[w].op = "get_hazards_nearby")
               => /\ Range(req'[w].todo) = {h.id : h \in Within(req'[w].body)}
                  /\ Len(req'[w].todo) = Cardinality(Within(req'[w].body))
                  /\ \A i, j \in DOMAIN req'[w].todo :
                        i < j => \A g \in GetHazard(req'[w].todo[i]) :
                                    \A h \in GetHazard(req'[w].todo[j]) : g.ts >= h.ts
                  /\ req'[w].out = <<>>
                  /\ (req'[w].pc = "done") <=> (req'[w].todo = <<>>)
                  /\ store' = store
         /\ req[w].op = "get_hazards_nearby" => LocatedAsStored(w)]_vars

\* A query at (60, 0) with radius 1 unit has returned the hazard one degree
\* of longitude away on the 60th parallel, while a hazard on the equator
\* is stored too.
C18_Witness ==
    \E w \in Workers :
        /\ req[w].op = "get_hazards_nearby" /\ req[w].pc = "done"
        /\ req[w].body = [lat |-> 60, lon |-> 0, radius_m |-> 1]
        /\ Len(req[w].out) = 1
        /\ req[w].out[1].lat = 60 /\ req[w].out[1].lon = 1
        /\ \E h \in hazards : ST_Y(h.geom) = 0

\* A hazard satisfies every filter of f that was supplied.
Satisfies(h, f) ==
    /\ \A v \in f.hazard_type : h.hazard_type = v
    /\ \A v \in f.severity_min : h.severity >= v
    /\ \A v \in f.severity_max : h.severity <= v
    /\ \A v \in f.start_date : h.ts >= v
    /\ \A v \in f.end_date : h.ts <= v

\* C19: list(filters, skip, limit) selects exactly the hazards that satisfy
\* every supplied filter (hazard_type equality, severity >= min, severity <=
\* max, ts >= start, ts <= end), unconstrained by an omitted one, ordered by
\* timestamp descending and then windowed by skip and limit; a supplied
\* boundary value is applied, not ignored.
C19_List ==
    [][\A w \in Workers :
         (Free(w) /\ Steps(w) /\ req'[w].op = "get_all_hazards")
            => LET q == req'[w].body
                   matching == {h \in hazards : Satisfies(h, q.filters)}
               IN \E s \in OrderByDesc(matching, "ts") :
                     LET last == IF Len(s) < q.skip + q.limit THEN Len(s)
                                 ELSE q.skip + q.limit
                     IN req'[w].todo = Ids(SubSeq(s, q.skip + 1, last))]_vars

\* The hazards created on a calendar day.
HazardsOn(date) == {h \in hazards : Date(h.ts) = date}

\* The trailing `days` calendar days at the time `now`: today and the days
\* before it.
TrailingDays(now, days) == (Date(now) - days + 1)..Date(now)

\* C21: trends(days) counts in hazards_by_type every stored hazard whatever
\* its age; hazards_by_day holds only the trailing `days` days, with exactly
\* one entry for each calendar day of that window that has a hazard and none
\* for an empty day, in strictly ascending date order, and the count of each
\* entry is the number of hazards on that calendar day.
C21_Trends ==
    [][\A w \in Workers :
         /\ (Free(w) /\ Steps(w) /\ req'[w].op = "get_hazard_trends")
               => /\ DOMAIN req'[w].row = {h.hazard_type : h \in hazards}
                  /\ \A t \in DOMAIN req'[w].row :
                        req'[w].row[t] = Cardinality({h \in hazards : h.hazard_type = t})
         /\ (req[w].pc = "tr_by_day" /\ Steps(w))
               => LET by_day == req'[w].out.hazards_by_day
                      window == TrailingDays(req'[w].ts, req'[w].body)
                  IN /\ req'[w].out.hazards_by_type = req[w].row
                     /\ {by_day[i].date : i \in DOMAIN by_day}
                           = {d \in window : HazardsOn(d) # {}}
                     /\ \A i, j \in DOMAIN by_day :
                           i < j => by_day[i].date < by_day[j].date
                     /\ \A i \in DOMAIN by_day :
                           by_day[i].count = Cardinality(HazardsOn(by_day[i].date))]_vars

\* The coordinate x, in ten-thousandths of a degree, rounds to c thousandths.
RoundsTo(x, c) ==
    IF x >= 0 THEN 10 * c - 5 <= x /\ x < 10 * c + 5
    ELSE 10 * c - 5 < x /\ x <= 10 * c + 5

\* The hazards of the grid cell of a cluster.
InCell(c) ==
    {h \in hazards : RoundsTo(ST_Y(h.geom), c.lat) /\ RoundsTo(ST_X(h.geom), c.lon)}

RECURSIVE SumOfCounts(_)
SumOfCounts(s) == IF s = <<>> THEN 0 ELSE Head(s).count + SumOfCounts(Tail(s))

Responds(w) ==
    /\ req[w].op = "create_hazard" /\ req[w].pc # "done"
    /\ req'[w].pc = "done" /\ req'[w].code = 201

\* C23: the response of a hazard creation does not wait on the transport
\* call: the request never completes after, blocked on, the completion of the
\* notifier's publish call.
C23_ResponseDoesNotWait ==
    [][\A w \in Workers :
         Responds(w) => ~(req[w].sent # <<>> /\ req[w].notified # "none")]_vars

\* The message m is the one of the hazard the request of w created: its id,
\* type, latitude, longitude and timestamp, on the topic of its type, with
\* quality of service 1 or more.
MessageOfCreated(m, w) ==
    /\ m.payload.hazard_id = req[w].id
    /\ m.payload.hazard_type = req[w].body.hazard_type
    /\ m.payload.latitude = req[w].body.lat
    /\ m.payload.longitude = req[w].body.lon
    /\ m.payload.timestamp = <<"iso8601", req[w].ts>>
    /\ m.topic = <<"hazards", "alerts", req[w].body.hazard_type>>
    /\ m.qos >= 1

\* C24: a message for a hazard is handed to the transport only after the
\* hazard has been committed, never for a failed create; with the transport
\* connected every successful create hands over at least one message with
\* the hazard's id, type, latitude, longitude and timestamp, quality of
\* service at least 1, on the topic of its hazard_type; with the transport
\* disconnected none is handed over.
C24_NotifyAfterCommit ==
    [][\A w \in Workers :
         /\ req'[w].sent # req[w].sent /\ req'[w].sent # <<>>
               => /\ req[w].op = "create_hazard" /\ req[w].id # NULL
                  /\ req[w].id < nextHazardId
                  /\ req'[w].transport = "connected"
                  /\ \A i \in DOMAIN req'[w].sent : MessageOfCreated(req'[w].sent[i], w)
         /\ (req[w].op = "create_hazard" /\ req[w].pc # "done" /\ req'[w].pc = "done"
                /\ req'[w].code # 201)
               => req[w].sent = <<>> /\ req'[w].sent = <<>>
         /\ Responds(w)
               => /\ req'[w].sent = req[w].sent
                  /\ req[w].transport \in {"none", "disconnected"} => req[w].sent = <<>>
                  /\ req[w].transport \in PublishResults
                        => /\ Len(req[w].sent) >= 1
                           /\ MessageOfCreated(req[w].sent[1], w)]_vars

\* A create of debris with the transport connected has been answered 201
\* after its message was handed over, and the hazard is stored.
C24_Witness ==
    \E w \in Workers :
        /\ req[w].op = "create_hazard" /\ req[w].pc = "done" /\ req[w].code = 201
        /\ req[w].transport = "success" /\ Len(req[w].sent) = 1
        /\ req[w].sent[1].payload.hazard_type = "debris"
        /\ req[w].sent[1].payload.latitude = 1
        /\ GetHazard(req[w].sent[1].payload.hazard_id) # {}

\* C25: under any interleaving of create_alert and delete_hazard every stored
\* alert with a hazard_id references a stored hazard, and a create_alert
\* whose hazard does not exist when the alert commits, never created or
\* deleted in the meantime, fails and stores no alert.
C25_AlertsReferenceHazards ==
    [][/\ \A a \in alerts' : a.hazard_id # NULL => GetHazard(a.hazard_id)' # {}
       /\ \A w \in Workers :
             (/\ req[w].pc = "ca_commit" /\ Steps(w)
              /\ req[w].id # NULL /\ GetHazard(req[w].id) = {})
                => /\ req'[w].pc = "done" /\ req'[w].code = 422
                   /\ alerts' = alerts /\ nextAlertId' = nextAlertId]_vars

\* Of two hazards the first was deleted, answered 204, and the creating
\* thread's last request, a create_alert naming it, was answered 422; the
\* stored alert is on the second hazard.
C25_Witness ==
    /\ nextHazardId = 3 /\ {h.id : h \in hazards} = {2}
    /\ req["w2"].pc = "done" /\ req["w2"].code = 204
    /\ req["w1"].pc = "done" /\ req["w1"].code = 422
    /\ {a.hazard_id : a \in alerts} = {2}

\* The keys of the alerts that were stored and are stored no more.
DeletedAlerts == {aid \in 1..(nextAlertId - 1) : GetAlert(aid) = {}}

\* C26: when an acknowledge and a delete of the same alert, or of its hazard,
\* interleave between the acknowledge's read and its commit, the alert is
\* never resurrected nor left half-written: a deleted alert is absent in
\* every later state, a stored alert is acknowledged exactly when it has its
\* acknowledged_at, and an acknowledge that finds the alert deleted at its
\* commit or at its read-back reports failure, so that one answered 200 had
\* completed while the alert was stored.
C26_AcknowledgeRacingDelete ==
    [][/\ DeletedAlerts \subseteq DeletedAlerts'
       /\ \A a \in alerts' : (a.status = "acknowledged") <=> (a.acknowledged_at # NULL)
       /\ \A w \in Workers :
             /\ (req[w].pc \in {"ack_commit", "ack_refresh"} /\ Steps(w)
                    /\ GetAlert(req[w].id) = {})
                   => /\ req'[w].pc = "done" /\ req'[w].code \in {404, 422}
                      /\ alerts' = alerts
             /\ (req[w].pc \in {"ack_commit", "ack_refresh"} /\ req'[w].pc = "done"
                    /\ req'[w].code = 200)
                   => \E a \in GetAlert(req[w].id) :
                         /\ a.status = "acknowledged"
                         /\ a.acknowledged_at = req'[w].out]_vars

\* The acknowledge of alert 1 was answered 422 and the deleting thread 204:
\* the alert is not stored, and neither is the hazard.
C26_Witness ==
    /\ req["w1"].pc = "done" /\ req["w1"].code = 422 /\ req["w1"].id = 1
    /\ req["w2"].pc = "done" /\ req["w2"].code = 204
    /\ nextAlertId > 1 /\ GetAlert(1) = {}
    /\ nextHazardId > 1 /\ hazards = {}
====
